---- MODULE Spec2Model ----
(***************************************************************************)
(* Model of python/jpegsnoop/jpeg_snoop_cli.py: the JPEG marker scanner,   *)
(* the DQT / SOF / APP segment decoders, digest-pair generation, the      *)
(* signature lookup and the tamper heuristic, as one run of main().       *)
(*                                                                         *)
(* Conventions.  Byte buffers are sequences over 0..255.  Offsets are the  *)
(* 0-based offsets of the Python code: the byte at offset o of buffer s is *)
(* s[o + 1].  An Optional value is None (the empty sequence) or            *)
(* Some(x) (the one-element sequence <<x>>).  A digest string is           *)
(* represented by the canonical byte sequence it is the MD5 of (MD5 is     *)
(* taken to be collision free), so two digests are equal exactly when the  *)
(* hashed bytes are equal.                                                 *)
(***************************************************************************)
EXTENDS Integers, Sequences, FiniteSets, TLC

VARIABLES
    pc,               \* position of the run inside main / summarize / parse_jpeg
    data,             \* parse_jpeg: data = path.read_bytes()
    offset,           \* parse_jpeg: offset
    marker,           \* parse_jpeg: marker of the current iteration (0 before any)
    length,           \* parse_jpeg: declared length of the current segment
    segment_data,     \* parse_jpeg: segment_data handed to the decoders
    sof_data,         \* parse_jpeg: Optional[SofData]
    quant_tables,     \* parse_jpeg: Dict[int, QuantTable], in insertion order
    info_flags,       \* parse_jpeg: info_flags
    dqt_offset,       \* parse_quant_tables: offset inside segment_data
    yielded,          \* every QuantTable yielded by parse_quant_tables, in stream order
    frames,           \* every SofData decoded from a SOF segment, in stream order
    signatures,       \* summarize: signatures = parse_signatures()
    quant_hash_pairs, \* summarize: quant_hash_pairs
    matches,          \* summarize: matches
    tampering,        \* summarize: Optional result of assess_tampering
    exc,              \* message of the exception in flight ("" when none)
    stdout,           \* JSON documents printed on standard output
    stderr,           \* JSON documents written on standard error
    exit_code         \* exit status of the process (-1 while running)

vars == <<pc, data, offset, marker, length, segment_data, sof_data, quant_tables,
          info_flags, dqt_offset, yielded, frames, signatures, quant_hash_pairs,
          matches, tampering, exc, stdout, stderr, exit_code>>

parse_vars == <<data, offset, marker, length, segment_data, sof_data, quant_tables,
                info_flags, dqt_offset, yielded, frames>>

(***************************************************************************)
(* Bounds of the model.                                                    *)
(***************************************************************************)
\* number of fragments concatenated after SOI to build an input file
MaxSegs == 3
\* largest table id of the tables drawn for the summarize-only specification
MaxDrawnId == 2
\* largest number of records of a drawn signature store
MaxSigs == 2

(***************************************************************************)
(* Program constants.                                                      *)
(***************************************************************************)
SOI_HI == 255
SOI_LO == 216
MinFileLen == 4
FillByte == 255
MarkerBase == 65280
EOI == 65497
TEM == 65281
RST0 == 65488
RST7 == 65495
DQT == 65499
SOF0 == 65472
SOF1 == 65473
SOF2 == 65474
SOF3 == 65475
APP0 == 65504
APP1 == 65505
APP14 == 65518
LengthFieldSize == 2
MinSofPayload == 6
CoefficientCount == 64

None == <<>>
Some(x) == <<x>>

Min(a, b) == IF a < b THEN a ELSE b
Max(a, b) == IF a > b THEN a ELSE b

\* data[offset]
At(s, o) == s[o + 1]

\* Python slicing s[a:b] for 0 <= a: clamped to the buffer, never an error
Slice(s, a, b) ==
    LET hi == Min(b, Len(s))
    IN  IF a >= hi THEN <<>> ELSE SubSeq(s, a + 1, hi)

\* bytes.startswith(prefix)
StartsWith(s, prefix) ==
    /\ Len(s) >= Len(prefix)
    /\ \A i \in 1..Len(prefix) : s[i] = prefix[i]

ExifPrefix == <<69, 120, 105, 102, 0, 0>>
JfifPrefix == <<74, 70, 73, 70, 0>>
AdobePrefix == <<65, 100, 111, 98, 101>>

\* struct.unpack(">H", two bytes)
BigEndian16(hi, lo) == hi * 256 + lo

\* read_uint16(data, offset): ok = FALSE stands for the raised JpegParseError
read_uint16(d, o) ==
    IF o + 2 > Len(d)
    THEN [ok |-> FALSE, value |-> 0, offset |-> o]
    ELSE [ok |-> TRUE, value |-> BigEndian16(At(d, o), At(d, o + 1)), offset |-> o + 2]

\* the inner loop "while offset < len(data) and data[offset] == 0xFF: offset += 1"
RECURSIVE SkipFill(_, _)
SkipFill(d, o) ==
    IF o < Len(d) /\ At(d, o) = FillByte THEN SkipFill(d, o + 1) ELSE o

\* the test at the head of parse_jpeg
HasSOI(d) == Len(d) >= MinFileLen /\ Slice(d, 0, 2) = <<SOI_HI, SOI_LO>>

\* "marker in {0xFF01} or 0xFFD0 <= marker <= 0xFFD7"
IsStandalone(m) == m \in {TEM} \/ (RST0 <= m /\ m <= RST7)

IsSOF(m) == m \in {SOF0, SOF1, SOF2, SOF3}

\* "if length < 2"
BadLength(len) == len < LengthFieldSize

\* "offset += length - 2"
AfterSegment(o, len) == o + len - 2

\* the SofData built from a SOF payload of at least 6 bytes
DecodeSof(seg) ==
    [precision |-> seg[1],
     height |-> BigEndian16(seg[2], seg[3]),
     width |-> BigEndian16(seg[4], seg[5]),
     component_count |-> seg[6]]

\* "sof_data = SofData(...)" inside the scanning loop
KeepSof(old, new) == Some(new)


(***************************************************************************)
(* parse_quant_tables: one iteration of its while loop.                    *)
(***************************************************************************)
\* "precision = header >> 4"
HeaderPrecision(header) == header \div 16

\* "table_id = header & 0x0F"
HeaderTableId(header) == header % 16

\* "length = 64 * (2 if precision else 1)"
TableByteLength(precision) == CoefficientCount * (IF precision # 0 THEN 2 ELSE 1)

\* "values = list(chunk)" or "list(struct.unpack('>64H', chunk))"
ChunkValues(precision, chunk) ==
    IF precision = 0
    THEN chunk
    ELSE [i \in 1..CoefficientCount |-> BigEndian16(chunk[2 * i - 1], chunk[2 * i])]

\* the offset after the table that starts at offset o of the segment
NextTableOffset(seg, o) == o + 1 + TableByteLength(HeaderPrecision(At(seg, o)))

\* One iteration at offset o < len(segment): ok = FALSE stands for the raised
\* "Incomplete DQT segment"; offset is the local offset when the iteration ends.
DecodeTable(seg, o) ==
    LET header == At(seg, o)
        precision == HeaderPrecision(header)
        table_id == HeaderTableId(header)
        len == TableByteLength(precision)
        chunk == Slice(seg, o + 1, o + 1 + len)
    IN  IF Len(chunk) # len
        THEN [ok |-> FALSE, offset |-> o + 1,
              table |-> [table_id |-> table_id, precision |-> precision, values |-> <<>>]]
        ELSE [ok |-> TRUE, offset |-> NextTableOffset(seg, o),
              table |-> [table_id |-> table_id, precision |-> precision,
                         values |-> ChunkValues(precision, chunk)]]

\* variant of DictStore that keeps the table an id already has
DictStoreKeepFirst(tables, t) ==
    IF \E i \in 1..Len(tables) : tables[i].table_id = t.table_id
    THEN tables
    ELSE Append(tables, t)

\* "quant_tables[table.table_id] = table": a dict keeps the position of a key
\* that is overwritten and appends a new key
DictStore(tables, t) ==
    IF \E i \in 1..Len(tables) : tables[i].table_id = t.table_id
    THEN [i \in 1..Len(tables) |->
            IF tables[i].table_id = t.table_id THEN t ELSE tables[i]]
    ELSE Append(tables, t)

(***************************************************************************)
(* QuantTable.md5, sorted(), digest pairs.                                 *)
(***************************************************************************)
\* struct.pack(">H", value) for each value, joined
PackBigEndian16(values) ==
    [i \in 1..(2 * Len(values)) |->
        IF i % 2 = 1 THEN values[(i + 1) \div 2] \div 256
                     ELSE values[i \div 2] % 256]

\* QuantTable.md5: the digest is represented by the bytes that are hashed
md5(t) == IF t.precision = 0 THEN t.values ELSE PackBigEndian16(t.values)

\* insertion of t into a list sorted by table_id, after the entries with an
\* equal key (sorted() is stable)
RECURSIVE InsertById(_, _)
InsertById(sorted, t) ==
    IF sorted = <<>> THEN <<t>>
    ELSE IF t.table_id < Head(sorted).table_id THEN <<t>> \o sorted
    ELSE <<Head(sorted)>> \o InsertById(Tail(sorted), t)

\* "sorted(quant_tables, key=lambda qt: qt.table_id)"
RECURSIVE SortedById(_)
SortedById(tables) ==
    IF tables = <<>> THEN <<>>
    ELSE InsertById(SortedById(SubSeq(tables, 1, Len(tables) - 1)), tables[Len(tables)])

\* variant of PairsAt whose test for a next table is off by one
PairsAtOffByOne(ordered, i) ==
    <<  <<md5(ordered[i]), None>>  >>
    \o (IF i + 2 <= Len(ordered)
        THEN <<  <<md5(ordered[i]), Some(md5(ordered[i + 1]))>>  >>
        ELSE <<>>)

\* the pairs appended for the table at index i (1-based) of ordered_tables
PairsAt(ordered, i) ==
    <<  <<md5(ordered[i]), None>>  >>
    \o (IF i + 1 <= Len(ordered)
        THEN <<  <<md5(ordered[i]), Some(md5(ordered[i + 1]))>>  >>
        ELSE <<>>)

\* the loop "for index, table in enumerate(ordered_tables)" from index i on
RECURSIVE PairsFrom(_, _)
PairsFrom(ordered, i) ==
    IF i > Len(ordered) THEN <<>>
    ELSE PairsAt(ordered, i) \o PairsFrom(ordered, i + 1)

HashPairs(ordered) == PairsFrom(ordered, 1)

(***************************************************************************)
(* Signature store.                                                        *)
(***************************************************************************)
\* Signature.to_dict: the digest fields are left out
to_dict(sig) ==
    [make |-> sig.make, model |-> sig.model, notes |-> sig.notes,
     layout |-> sig.layout, software |-> sig.software, extra |-> sig.extra]

\* "sig.hash_y == hash_y and (hash_c is None or sig.hash_c == hash_c)"
SigMatches(sig, hash_y, hash_c) ==
    sig.hash_y = hash_y /\ (hash_c = None \/ Some(sig.hash_c) = hash_c)

\* the inner loop "for sig in available" for one pair
RECURSIVE MatchesOfPair(_, _, _)
MatchesOfPair(available, pair, j) ==
    IF j > Len(available) THEN <<>>
    ELSE (IF SigMatches(available[j], pair[1], pair[2])
          THEN <<to_dict(available[j])>> ELSE <<>>)
         \o MatchesOfPair(available, pair, j + 1)

RECURSIVE MatchesFrom(_, _, _)
MatchesFrom(available, pairs, i) ==
    IF i > Len(pairs) THEN <<>>
    ELSE MatchesOfPair(available, pairs[i], 1) \o MatchesFrom(available, pairs, i + 1)

find_signature_matches(sigs, hash_pairs) == MatchesFrom(sigs, hash_pairs, 1)

\* A line of Signatures.inl: whether it starts with "{" once stripped, and the
\* _T("...") tokens the pattern finds in it.
TokenAt(tokens, i) == IF Len(tokens) >= i THEN tokens[i] ELSE ""

LineSignature(tokens) ==
    [make |-> tokens[1], model |-> tokens[2], notes |-> tokens[3],
     hash_y |-> tokens[4], hash_c |-> tokens[5],
     layout |-> TokenAt(tokens, 6), software |-> TokenAt(tokens, 7),
     extra |-> TokenAt(tokens, 8)]

\* the loop "for line in handle" of parse_signatures, from line i on
RECURSIVE SignaturesFrom(_, _)
SignaturesFrom(lines, i) ==
    IF i > Len(lines) THEN <<>>
    ELSE IF ~lines[i].brace THEN SignaturesFrom(lines, i + 1)
    ELSE IF Len(lines[i].tokens) < 5 THEN SignaturesFrom(lines, i + 1)
    ELSE IF lines[i].tokens[1] = "*" THEN <<>>
    ELSE <<LineSignature(lines[i].tokens)>> \o SignaturesFrom(lines, i + 1)

parse_signatures(lines) == SignaturesFrom(lines, 1)

(***************************************************************************)
(* assess_tampering.                                                       *)
(***************************************************************************)
ReasonExif == "EXIF block missing; metadata may have been stripped or altered."
ReasonAdobe == "Adobe marker detected; file may have been edited."
ReasonNoMatch == "Quantization signature not matched to a known camera profile."
ReasonNone == "No metadata anomalies detected."
SummarySuspected == "Tampering suspected"
SummaryClean == "No obvious tampering detected"

\* variant of ExifMissing that reads the JFIF flag
ExifMissingWrongKey(flags) == ~flags.hasJFIF

\* "if not info_flags.get('hasExif', False)"
ExifMissing(flags) == ~flags.hasExif

assess_tampering(flags, found) ==
    LET r1 == IF ExifMissing(flags) THEN <<ReasonExif>> ELSE <<>>
        r2 == IF flags.hasAdobe THEN r1 \o <<ReasonAdobe>> ELSE r1
        r3 == IF found = <<>> THEN r2 \o <<ReasonNoMatch>> ELSE r2
        suspected == r3 # <<>>
    IN  [suspected |-> suspected,
         summary |-> IF suspected THEN SummarySuspected ELSE SummaryClean,
         reasons |-> IF ~suspected THEN r3 \o <<ReasonNone>> ELSE r3]


(***************************************************************************)
(* One iteration of the scanning loop of parse_jpeg, entered with          *)
(* offset < len(data).  The result gives the locals when the iteration     *)
(* ends and where control goes: "scan" (next iteration), "dqt" (the DQT    *)
(* decoding loop), "scan_end" (break) or "except" (a raised                *)
(* JpegParseError, its message in exc).                                    *)
(***************************************************************************)
ErrUint16 == "Unexpected end of data while reading uint16"
ErrLength == "Invalid segment length"
ErrSof == "Invalid SOF segment"
ErrDqt == "Incomplete DQT segment"
ErrSoi == "Not a valid JPEG (missing SOI marker)"
ErrNoSof == "Missing SOF0 marker; cannot read image dimensions"

\* the command-line argument image_path, and SIGNATURE_FILE, the file
\* Signatures.inl in the directory of the script
image_path == "image"
SIGNATURE_FILE == "jpegsnoop/Signatures.inl"

\* str() of the FileNotFoundError of parse_signatures
ErrNoSignatures(path) ==
    "Cannot locate Signatures.inl at " \o path
    \o ". Ensure the JPEGsnoop resources are available."

\* the message of main for a missing image
ErrNoImage(path) == "Image does not exist: " \o path

\* variant of SkipByte that forgets to advance
SkipByteStuck(o) == o

\* "if data[offset] != 0xFF: offset += 1; continue"
SkipByte(o) == o + 1

\* "marker = 0xFF00 | data[offset]"
MarkerAt(d, o) == MarkerBase + At(d, o)

\* variant of IsEOI that tests the code of SOI instead of EOI
IsEOIWrongCode(m) == m = MarkerBase + SOI_LO

\* "if marker == 0xFFD9: break"
IsEOI(m) == m = EOI

\* the flags after an APP segment
FlagsAfter(flags, m, seg) ==
    IF m = APP1 /\ StartsWith(seg, ExifPrefix) THEN [flags EXCEPT !.hasExif = TRUE]
    ELSE IF m = APP0 /\ StartsWith(seg, JfifPrefix) THEN [flags EXCEPT !.hasJFIF = TRUE]
    ELSE IF m = APP14 /\ StartsWith(seg, AdobePrefix) THEN [flags EXCEPT !.hasAdobe = TRUE]
    ELSE flags

\* "segment_data = data[offset : offset + length - 2]"
SegmentData(d, o, len) == Slice(d, o, o + len - 2)

ScanIteration(d, o, old) ==
    IF At(d, o) # FillByte
    THEN [old EXCEPT !.offset = SkipByte(o)]
    ELSE
    LET o1 == SkipFill(d, o)
    IN  IF o1 >= Len(d)
        THEN [old EXCEPT !.pc = "scan_end", !.offset = o1]
        ELSE
        LET m == MarkerAt(d, o1)
            o2 == o1 + 1
            at_marker == [old EXCEPT !.offset = o2, !.marker = m]
        IN  IF IsEOI(m) THEN [at_marker EXCEPT !.pc = "scan_end"]
            ELSE IF IsStandalone(m) THEN at_marker
            ELSE
            LET r == read_uint16(d, o2)
            IN  IF ~r.ok THEN [at_marker EXCEPT !.pc = "except", !.exc = ErrUint16]
                ELSE IF BadLength(r.value)
                THEN [at_marker EXCEPT !.pc = "except", !.exc = ErrLength,
                                       !.offset = r.offset, !.length = r.value]
                ELSE
                LET seg == SegmentData(d, r.offset, r.value)
                    in_seg == [at_marker EXCEPT !.offset = AfterSegment(r.offset, r.value),
                                                !.length = r.value,
                                                !.segment_data = seg]
                IN  IF m = DQT THEN [in_seg EXCEPT !.pc = "dqt"]
                    ELSE IF IsSOF(m)
                    THEN IF Len(seg) < MinSofPayload
                         THEN [in_seg EXCEPT !.pc = "except", !.exc = ErrSof]
                         ELSE [in_seg EXCEPT
                                 !.sof_data = KeepSof(old.sof_data, DecodeSof(seg)),
                                 !.frames = Append(old.frames, DecodeSof(seg))]
                    ELSE [in_seg EXCEPT !.info_flags = FlagsAfter(old.info_flags, m, seg)]

\* "if sof_data is None" after the loop
MissingFrame(sof) == sof = None

(***************************************************************************)
(* Input files: SOI followed by up to MaxSegs fragments, and two files     *)
(* that do not start with SOI.                                             *)
(***************************************************************************)
Rep(n, b) == [i \in 1..n |-> b]
Rep16(n, hi, lo) == [i \in 1..(2 * n) |-> IF i % 2 = 1 THEN hi ELSE lo]

FragSofA == <<255, 192, 0, 8, 8, 0, 2, 0, 3, 1>>
FragSofB == <<255, 194, 0, 8, 8, 0, 5, 0, 4, 3>>
FragSofShort == <<255, 193, 0, 7, 8, 0, 2, 0, 3>>
FragSofCut == <<255, 192, 127, 255, 8, 0, 7, 0, 6, 3>>
FragDqtTwo == <<255, 219, 0, 196, 0>> \o Rep(64, 1) \o <<17>> \o Rep16(64, 0, 2)
FragDqtAgain == <<255, 219, 0, 67, 0>> \o Rep(64, 3)
FragDqtWide == <<255, 219, 0, 131, 37>> \o Rep(128, 1)
FragDqtShort == <<255, 219, 0, 5, 0, 1, 1>>
FragExif == <<255, 225, 0, 8>> \o ExifPrefix
FragExifCut == <<255, 225, 127, 255>> \o ExifPrefix
FragJfif == <<255, 224, 0, 7>> \o JfifPrefix
FragAdobe == <<255, 238, 0, 7>> \o AdobePrefix
FragEoi == <<255, 217>>
FragRst == <<255, 208, 0, 255>>
FragBadLen == <<255, 226, 0, 1>>
FragCutLen == <<255, 226, 0>>

Fragments ==
    <<FragSofA, FragSofB, FragSofShort, FragSofCut, FragDqtTwo, FragDqtAgain,
      FragDqtWide, FragDqtShort, FragExif, FragExifCut, FragJfif, FragAdobe,
      FragEoi, FragRst, FragBadLen, FragCutLen>>

RECURSIVE Concat(_, _)
Concat(choice, i) ==
    IF i > Len(choice) THEN <<>>
    ELSE Fragments[choice[i]] \o Concat(choice, i + 1)

InputFiles ==
    { <<SOI_HI, SOI_LO>> \o Concat(choice, 1) :
        choice \in UNION { [1..n -> 1..Len(Fragments)] : n \in 0..MaxSegs } }
    \cup { <<>>, <<0, 216, 255, 217>> }

\* Signatures.inl as shipped next to the script, or absent
DigestA == Rep(64, 1)
DigestB == Rep16(64, 0, 2)
DigestC == Rep(64, 3)
WildcardDigest == <<42>>

SignatureLines ==
    << [brace |-> FALSE, tokens |-> <<>>],
       [brace |-> TRUE, tokens |-> <<"x", "y", "z">>],
       [brace |-> TRUE,
        tokens |-> <<"CamA", "A1", "fine", DigestA, DigestB, "l", "s", "e">>],
       [brace |-> TRUE, tokens |-> <<"CamC", "C1", "", DigestC, WildcardDigest>>],
       [brace |-> TRUE, tokens |-> <<"*", "*", "*", "*", "*">>],
       [brace |-> TRUE, tokens |-> <<"CamZ", "Z1", "", DigestA, DigestA>>] >>

SignatureFiles ==
    { [exists |-> FALSE, lines |-> <<>>], [exists |-> TRUE, lines |-> SignatureLines] }

NoFlags == [hasExif |-> FALSE, hasJFIF |-> FALSE, hasAdobe |-> FALSE]


(***************************************************************************)
(* The run of main().                                                      *)
(***************************************************************************)
Init ==
    /\ pc = "main"
    /\ data = <<>>
    /\ offset = 0
    /\ marker = 0
    /\ length = 0
    /\ segment_data = <<>>
    /\ sof_data = None
    /\ quant_tables = <<>>
    /\ info_flags = NoFlags
    /\ dqt_offset = 0
    /\ yielded = <<>>
    /\ frames = <<>>
    /\ signatures = <<>>
    /\ quant_hash_pairs = <<>>
    /\ matches = <<>>
    /\ tampering = None
    /\ exc = ""
    /\ stdout = <<>>
    /\ stderr = <<>>
    /\ exit_code = -1

\* main: "if not image_path.exists(): raise SystemExit(json.dumps({...}))"
Main ==
    /\ pc = "main"
    /\ \E exists \in BOOLEAN :
         IF exists
         THEN /\ pc' = "parse_jpeg"
              /\ UNCHANGED <<stderr, exit_code>>
         ELSE /\ pc' = "done"
              /\ stderr' = <<[error |-> ErrNoImage(image_path)]>>
              /\ exit_code' = 1
    /\ UNCHANGED <<parse_vars, signatures, quant_hash_pairs, matches, tampering,
                   exc, stdout>>

\* parse_jpeg up to the scanning loop: read the file, test SOI, set the locals
ParseJpegEnter ==
    /\ pc = "parse_jpeg"
    /\ \E d \in InputFiles :
         /\ data' = d
         /\ IF HasSOI(d)
            THEN /\ pc' = "scan"
                 /\ offset' = 2
                 /\ exc' = exc
            ELSE /\ pc' = "except"
                 /\ exc' = ErrSoi
                 /\ offset' = offset
    /\ sof_data' = None
    /\ quant_tables' = <<>>
    /\ info_flags' = NoFlags
    /\ UNCHANGED <<marker, length, segment_data, dqt_offset, yielded, frames,
                   signatures, quant_hash_pairs, matches, tampering, stdout, stderr,
                   exit_code>>

ScanLocals ==
    [pc |-> "scan", offset |-> offset, marker |-> marker, length |-> length,
     segment_data |-> segment_data, sof_data |-> sof_data, frames |-> frames,
     info_flags |-> info_flags, exc |-> exc]

\* one iteration of "while offset < len(data)" in parse_jpeg
ScanStep ==
    /\ pc = "scan"
    /\ offset < Len(data)
    /\ LET r == ScanIteration(data, offset, ScanLocals)
       IN  /\ pc' = r.pc
           /\ offset' = r.offset
           /\ marker' = r.marker
           /\ length' = r.length
           /\ segment_data' = r.segment_data
           /\ sof_data' = r.sof_data
           /\ frames' = r.frames
           /\ info_flags' = r.info_flags
           /\ exc' = r.exc
           /\ dqt_offset' = IF r.pc = "dqt" THEN 0 ELSE dqt_offset
    /\ UNCHANGED <<data, quant_tables, yielded, signatures, quant_hash_pairs, matches,
                   tampering, stdout, stderr, exit_code>>

\* the loop condition "offset < len(data)" is false
ScanLoopExit ==
    /\ pc = "scan"
    /\ ~(offset < Len(data))
    /\ pc' = "scan_end"
    /\ UNCHANGED <<parse_vars, signatures, quant_hash_pairs, matches, tampering, exc,
                   stdout, stderr, exit_code>>

\* "for table in parse_quant_tables(segment_data): quant_tables[table.table_id] = table":
\* one iteration of the generator's loop and the store of the table it yields
DqtStep ==
    /\ pc = "dqt"
    /\ IF dqt_offset < Len(segment_data)
       THEN LET r == DecodeTable(segment_data, dqt_offset)
            IN  /\ dqt_offset' = r.offset
                /\ IF r.ok
                   THEN /\ quant_tables' = DictStore(quant_tables, r.table)
                        /\ yielded' = Append(yielded, r.table)
                        /\ pc' = "dqt"
                        /\ exc' = exc
                   ELSE /\ pc' = "except"
                        /\ exc' = ErrDqt
                        /\ UNCHANGED <<quant_tables, yielded>>
       ELSE /\ pc' = "scan"
            /\ UNCHANGED <<dqt_offset, quant_tables, yielded, exc>>
    /\ UNCHANGED <<data, offset, marker, length, segment_data, sof_data, info_flags,
                   frames, signatures, quant_hash_pairs, matches, tampering, stdout,
                   stderr, exit_code>>

\* the end of parse_jpeg: "if sof_data is None: raise ..."; "return ..."
ScanEnd ==
    /\ pc = "scan_end"
    /\ IF MissingFrame(sof_data)
       THEN pc' = "except" /\ exc' = ErrNoSof
       ELSE pc' = "parse_signatures" /\ exc' = exc
    /\ UNCHANGED <<parse_vars, signatures, quant_hash_pairs, matches, tampering,
                   stdout, stderr, exit_code>>

\* summarize: "signatures = parse_signatures()"
LoadSignatures ==
    /\ pc = "parse_signatures"
    /\ \E f \in SignatureFiles :
         IF f.exists
         THEN /\ signatures' = parse_signatures(f.lines)
              /\ pc' = "pairs"
              /\ exc' = exc
         ELSE /\ pc' = "except"
              /\ exc' = ErrNoSignatures(SIGNATURE_FILE)
              /\ signatures' = signatures
    /\ UNCHANGED <<parse_vars, quant_hash_pairs, matches, tampering, stdout, stderr,
                   exit_code>>

\* summarize: the construction of quant_hash_pairs
BuildPairs ==
    /\ pc = "pairs"
    /\ quant_hash_pairs' = HashPairs(SortedById(quant_tables))
    /\ pc' = "match"
    /\ UNCHANGED <<parse_vars, signatures, matches, tampering, exc, stdout, stderr,
                   exit_code>>

\* summarize: "matches = find_signature_matches(signatures, quant_hash_pairs)"
FindMatches ==
    /\ pc = "match"
    /\ matches' = find_signature_matches(signatures, quant_hash_pairs)
    /\ pc' = "assess"
    /\ UNCHANGED <<parse_vars, signatures, quant_hash_pairs, tampering, exc, stdout,
                   stderr, exit_code>>

\* summarize: "tampering = assess_tampering(info_flags, matches)"
AssessTampering ==
    /\ pc = "assess"
    /\ tampering' = Some(assess_tampering(info_flags, matches))
    /\ pc' = "print"
    /\ UNCHANGED <<parse_vars, signatures, quant_hash_pairs, matches, exc, stdout,
                   stderr, exit_code>>

\* the dictionary summarize returns
TableEntry(t) ==
    [id |-> t.table_id, precision |-> t.precision, values |-> t.values, md5 |-> md5(t)]

ResultDocument ==
    LET ordered == SortedById(quant_tables)
        sof == sof_data[1]
    IN  [file |-> [path |-> image_path, sizeBytes |-> Len(data)],
         jpeg |-> [width |-> sof.width, height |-> sof.height,
                   componentCount |-> sof.component_count,
                   precision |-> sof.precision,
                   hasExif |-> info_flags.hasExif, hasJFIF |-> info_flags.hasJFIF,
                   hasAdobe |-> info_flags.hasAdobe],
         quantizationTables |-> [i \in 1..Len(ordered) |-> TableEntry(ordered[i])],
         signatureMatches |-> matches,
         tamperingAssessment |-> tampering[1]]

\* summarize returns and main prints the result
PrintResult ==
    /\ pc = "print"
    /\ stdout' = Append(stdout, ResultDocument)
    /\ exit_code' = 0
    /\ pc' = "done"
    /\ UNCHANGED <<parse_vars, signatures, quant_hash_pairs, matches, tampering, exc,
                   stderr>>

\* variant of MainExcept that prints the error and ends with status 0
MainExceptExitZero ==
    /\ pc = "except"
    /\ stdout' = Append(stdout, [error |-> exc])
    /\ exit_code' = 0
    /\ pc' = "done"
    /\ UNCHANGED <<parse_vars, signatures, quant_hash_pairs, matches, tampering, exc,
                   stderr>>

\* main: "except Exception as exc: print(json.dumps({'error': str(exc)})); raise SystemExit(1)"
MainExcept ==
    /\ pc = "except"
    /\ stdout' = Append(stdout, [error |-> exc])
    /\ exit_code' = 1
    /\ pc' = "done"
    /\ UNCHANGED <<parse_vars, signatures, quant_hash_pairs, matches, tampering, exc,
                   stderr>>

Next ==
    \/ Main
    \/ ParseJpegEnter
    \/ ScanStep
    \/ ScanLoopExit
    \/ DqtStep
    \/ ScanEnd
    \/ LoadSignatures
    \/ BuildPairs
    \/ FindMatches
    \/ AssessTampering
    \/ PrintResult
    \/ MainExcept

Spec == Init /\ [][Next]_vars



(***************************************************************************)
(* The part of summarize after parse_jpeg and parse_signatures returned,   *)
(* started from drawn tables and a drawn signature store; and              *)
(* assess_tampering alone, started from drawn flags and matches.           *)
(***************************************************************************)
SeqsUpTo(S, n) == UNION { [1..k -> S] : k \in 0..n }

DrawnTables ==
    { [table_id |-> id, precision |-> c.precision, values |-> c.values] :
        id \in 0..MaxDrawnId,
        c \in { [precision |-> 0, values |-> Rep(CoefficientCount, 1)],
                [precision |-> 1, values |-> Rep(CoefficientCount, 2)] } }

\* what a dict can hold: no two tables with the same id, in any insertion order
DrawnTableLists ==
    { ts \in SeqsUpTo(DrawnTables, MaxDrawnId + 1) :
        \A i, j \in 1..Len(ts) : i # j => ts[i].table_id # ts[j].table_id }

DrawnRecord(make, y, c) ==
    [make |-> make, model |-> "m", notes |-> "", hash_y |-> y, hash_c |-> c,
     layout |-> "", software |-> "", extra |-> ""]

DrawnRecords ==
    { DrawnRecord("CamAB", DigestA, DigestB),
      DrawnRecord("CamAW", DigestA, WildcardDigest),
      DrawnRecord("CamBA", DigestB, DigestA) }

DrawnStores == SeqsUpTo(DrawnRecords, MaxSigs)

DrawnMatches == SeqsUpTo({ to_dict(r) : r \in DrawnRecords }, MaxSigs)

AllFlags == [hasExif : BOOLEAN, hasJFIF : BOOLEAN, hasAdobe : BOOLEAN]

InitLocals ==
    /\ data = <<>>
    /\ offset = 0
    /\ marker = 0
    /\ length = 0
    /\ segment_data = <<>>
    /\ sof_data = None
    /\ dqt_offset = 0
    /\ yielded = <<>>
    /\ frames = <<>>
    /\ quant_hash_pairs = <<>>
    /\ tampering = None
    /\ exc = ""
    /\ stdout = <<>>
    /\ stderr = <<>>
    /\ exit_code = -1

InitClassify ==
    /\ InitLocals
    /\ pc = "pairs"
    /\ quant_tables \in DrawnTableLists
    /\ signatures \in DrawnStores
    /\ info_flags = NoFlags
    /\ matches = <<>>

NextClassify ==
    \/ BuildPairs
    \/ FindMatches
    \/ AssessTampering

SpecClassify == InitClassify /\ [][NextClassify]_vars

InitAssess ==
    /\ InitLocals
    /\ pc = "assess"
    /\ quant_tables = <<>>
    /\ signatures = <<>>
    /\ info_flags \in AllFlags
    /\ matches \in DrawnMatches

NextAssess == AssessTampering

SpecAssess == InitAssess /\ [][NextAssess]_vars


(***************************************************************************)
(* Properties.                                                             *)
(***************************************************************************)
ScanErrors == {ErrUint16, ErrLength, ErrSof, ErrDqt}

\* parse_jpeg has returned its result
ParseReturned ==
    \/ pc \in {"parse_signatures", "pairs", "match", "assess", "print"}
    \/ pc = "done" /\ exit_code = 0

\* C1: for every marker that carries a length field, the payload handed to the
\* segment decoders has exactly declared_length - 2 bytes: a segment whose declared
\* length reaches past the end of the buffer is never sliced short and decoded.
C1_ExactPayload ==
    length >= LengthFieldSize => Len(segment_data) = length - 2

\* C2: only the first SOF segment is kept: whenever SOF segments have been decoded,
\* the frame info held (and returned) is the one of the first SOF in stream order.
C2_FirstSofKept ==
    frames # <<>> => sof_data = Some(frames[1])

TableIds(tables) == { tables[i].table_id : i \in 1..Len(tables) }

\* C7: every quantization table of a successful parse has an id in 0..3, a precision
\* of 0 or 1 and exactly 64 coefficients, and the result holds at most 4 tables.
C7_TableInvariant ==
    ParseReturned =>
        /\ \A i \in 1..Len(quant_tables) :
             /\ quant_tables[i].table_id \in 0..3
             /\ quant_tables[i].precision \in {0, 1}
             /\ Len(quant_tables[i].values) = CoefficientCount
        /\ Len(quant_tables) <= 4

\* the last table of the given id among the tables yielded so far
LastYielded(id) ==
    LET last == CHOOSE i \in 1..Len(yielded) :
                    /\ yielded[i].table_id = id
                    /\ \A j \in (i + 1)..Len(yielded) : yielded[j].table_id # id
    IN  yielded[last]

\* C8: DQT last-write-wins: at every moment the table held for an id is the one
\* yielded latest for that id, there is one entry per id that was ever yielded and
\* no other, and the quantizationTables list of the output is in strictly
\* ascending id order and holds exactly those tables.
C8_LastWriteWins ==
    /\ TableIds(quant_tables) = TableIds(yielded)
    /\ \A i, j \in 1..Len(quant_tables) :
         i # j => quant_tables[i].table_id # quant_tables[j].table_id
    /\ \A i \in 1..Len(quant_tables) :
         quant_tables[i] = LastYielded(quant_tables[i].table_id)
    /\ (pc = "done" /\ exit_code = 0) =>
         LET out == stdout[1].quantizationTables
         IN  /\ Len(out) = Cardinality(TableIds(yielded))
             /\ \A i \in 1..(Len(out) - 1) : out[i].id < out[i + 1].id
             /\ \A i \in 1..Len(out) :
                  /\ out[i].id \in TableIds(yielded)
                  /\ out[i].values = LastYielded(out[i].id).values
                  /\ out[i].precision = LastYielded(out[i].id).precision

\* an id is overwritten by a different table while another id is held, and the
\* run ends with a result
C8_Witness ==
    /\ pc = "done"
    /\ exit_code = 0
    /\ \E i, j, k \in 1..Len(yielded) :
         /\ i < j
         /\ yielded[i].table_id = yielded[j].table_id
         /\ yielded[i].values # yielded[j].values
         /\ yielded[k].table_id # yielded[i].table_id

\* C9: End-Of-Image stops the scan at once: after the scanner has read marker
\* 0xFFD9 the scan is over, no step moves the offset or changes the frame info, the
\* tables or the flags, and no segment error is raised.
C9_EoiStops ==
    /\ [](marker = EOI => (pc \notin {"scan", "dqt"} /\ exc \notin ScanErrors))
    /\ [][marker = EOI =>
            UNCHANGED <<offset, marker, length, segment_data, sof_data, quant_tables,
                        info_flags, frames, yielded>>]_vars

\* EOI was read, a malformed segment follows it in the buffer, and the run ended
\* with a result
C9_Witness ==
    /\ pc = "done"
    /\ exit_code = 0
    /\ marker = EOI
    /\ Slice(data, offset, Len(data)) = FragBadLen

\* the largest input file
MaxFileLen == CHOOSE n \in { Len(d) : d \in InputFiles } :
                  \A d \in InputFiles : Len(d) <= n

\* the position of the control state in the order the run goes through them
PhaseRank ==
    CASE pc = "main" -> 10
      [] pc = "parse_jpeg" -> 9
      [] pc \in {"scan", "dqt"} -> 8
      [] pc = "scan_end" -> 7
      [] pc = "parse_signatures" -> 6
      [] pc = "pairs" -> 5
      [] pc = "match" -> 4
      [] pc = "assess" -> 3
      [] pc = "print" -> 2
      [] pc = "except" -> 1
      [] pc = "done" -> 0

\* a natural number that measures the work left: the phase, then the bytes left
\* to scan, then the bytes left in the DQT segment being decoded
Rank ==
    PhaseRank * (MaxFileLen + 2) * (MaxFileLen + 2)
    + (IF pc \in {"scan", "dqt"}
       THEN Max(0, Len(data) - offset) * (Len(data) + 2)
            + (IF pc = "dqt" THEN Max(0, Len(segment_data) - dqt_offset) + 1 ELSE 0)
       ELSE 0)

\* C10: the scan terminates: every iteration of the scanning loop and every
\* iteration of the DQT decoding loop strictly increases its offset; every step of
\* the run strictly decreases a natural-number measure of the work left, and a run
\* that has not ended (with a result or a parse error) can always take a step that
\* moves its offset forward, so no run loops forever.
C10_Terminates ==
    /\ [][(pc = "scan" /\ offset < Len(data)) => offset' > offset]_vars
    /\ [][(pc = "dqt" /\ dqt_offset < Len(segment_data)) => dqt_offset' > dqt_offset]_vars
    /\ [][Rank' < Rank]_vars
    /\ [](Rank >= 0 /\ (Rank = 0 <=> pc = "done"))
    /\ []((pc = "scan" /\ offset < Len(data)) =>
            ScanIteration(data, offset, ScanLocals).offset > offset)
    /\ []((pc = "dqt" /\ dqt_offset < Len(segment_data)) =>
            DecodeTable(segment_data, dqt_offset).offset > dqt_offset)

\* a run that skipped plain bytes and fill bytes, decoded several tables and ended
C10_Witness ==
    /\ pc = "done"
    /\ Len(yielded) >= 3
    /\ \E o \in 2..(Len(data) - 2) :
         At(data, o) # FillByte /\ At(data, o + 1) = FillByte /\ At(data, o + 2) = FillByte

ResultKeys == {"file", "jpeg", "quantizationTables", "signatureMatches",
               "tamperingAssessment"}

\* C6: no partial success: a finished run has printed either one complete result
\* (exit status 0) or one error message only (failing exit status); a stream that
\* starts with SOI and is scanned without a segment error but holds no SOF segment
\* ends with the missing-frame-header error and a failing exit status.
C6_NoPartialSuccess ==
    pc = "done" =>
        /\ \/ /\ exit_code = 0
              /\ stderr = <<>>
              /\ Len(stdout) = 1
              /\ DOMAIN stdout[1] = ResultKeys
              /\ frames # <<>>
           \/ /\ exit_code = 1
              /\ Len(stdout) + Len(stderr) = 1
              /\ DOMAIN (stdout \o stderr)[1] = {"error"}
        /\ (HasSOI(data) /\ frames = <<>> /\ exc \notin ScanErrors) =>
              /\ exit_code = 1
              /\ stderr = <<>>
              /\ Len(stdout) = 1
              /\ DOMAIN stdout[1] = {"error"}
              /\ stdout[1].error = ErrNoSof

\* a stream with tables and an EXIF segment but no SOF was scanned to the end
C6_Witness ==
    /\ pc = "done"
    /\ HasSOI(data)
    /\ frames = <<>>
    /\ quant_tables # <<>>
    /\ info_flags.hasExif
    /\ exc = ErrNoSof


\* the record at index c[2] of the store matches the pair at index c[1] under the
\* rule of the signature store: luminance digests equal, and the record's
\* chrominance digest is the wildcard or equals the pair's second digest when present
StoreRule(c) ==
    LET sig == signatures[c[2]]
        pair == quant_hash_pairs[c[1]]
    IN  /\ sig.hash_y = pair[1]
        /\ \/ sig.hash_c = WildcardDigest
           \/ (pair[2] # None /\ sig.hash_c = pair[2][1])

\* all (pair index, record index) combinations, pair by pair in generation order
\* and, within a pair, in store order
Combinations ==
    LET n == Len(signatures)
    IN  [k \in 1..(Len(quant_hash_pairs) * n) |->
            <<((k - 1) \div n) + 1, ((k - 1) % n) + 1>>]

\* C3: find_signature_matches reports a record for a pair exactly when the record's
\* luminance digest equals the first digest and the record's chrominance digest is
\* a wildcard or equals the second digest when present: the result holds exactly
\* the (pair, record) combinations that satisfy this rule.
C3_StoreRule ==
    pc \in {"assess", "print"} =>
        LET hits == SelectSeq(Combinations, StoreRule)
        IN  matches = [k \in 1..Len(hits) |-> to_dict(signatures[hits[k][2]])]

\* the table with the k-th smallest id among the decoded tables
TableOfRank(k) ==
    LET held == { quant_tables[i] : i \in 1..Len(quant_tables) }
    IN  CHOOSE t \in held :
            Cardinality({ u \in held : u.table_id < t.table_id }) = k - 1

\* C4: for N tables, N pairs with an absent second digest and N - 1 pairs with both
\* digests are generated; the pair (digest_i, none) of the table at sorted position
\* i comes first, directly followed by (digest_i, digest_{i+1}) when position i + 1
\* exists; for N = 0 there is no pair and the match list is empty.
C4_PairGeneration ==
    pc \in {"match", "assess", "print"} =>
        LET N == Len(quant_tables)
            pairs == quant_hash_pairs
            singles == { i \in 1..Len(pairs) : pairs[i][2] = None }
            doubles == { i \in 1..Len(pairs) : pairs[i][2] # None }
        IN  /\ Cardinality(singles) = N
            /\ Cardinality(doubles) = IF N = 0 THEN 0 ELSE N - 1
            /\ \A i \in 1..N :
                 /\ pairs[2 * i - 1] = <<md5(TableOfRank(i)), None>>
                 /\ i < N =>
                      pairs[2 * i] = <<md5(TableOfRank(i)), Some(md5(TableOfRank(i + 1)))>>
            /\ (N = 0 /\ pc \in {"assess", "print"}) => matches = <<>>

\* three tables inserted in an order that is not the id order, with two different
\* digests, have produced their five pairs
C4_Witness ==
    /\ pc = "match"
    /\ Len(quant_tables) = 3
    /\ quant_tables[1].table_id > quant_tables[2].table_id
    /\ md5(TableOfRank(1)) # md5(TableOfRank(2))
    /\ Len(quant_hash_pairs) = 5

\* the reasons triggered, in the fixed order of the three checks
TriggeredReasons ==
    LET checks == << <<~info_flags.hasExif, ReasonExif>>,
                     <<info_flags.hasAdobe, ReasonAdobe>>,
                     <<matches = <<>>, ReasonNoMatch>> >>
        hit(c) == c[1]
        fired == SelectSeq(checks, hit)
    IN  [k \in 1..Len(fired) |-> fired[k][2]]

\* C5: suspected is true exactly when EXIF is absent or the Adobe flag is set or
\* the match list is empty; the reasons are the triggered ones in the order
\* EXIF-missing, Adobe-marker, no-signature-match; a clean verdict carries the
\* single no-anomalies reason; the JFIF flag has no influence on the verdict.
C5_Verdict ==
    pc = "print" =>
        LET v == tampering[1]
            expected == ~info_flags.hasExif \/ info_flags.hasAdobe \/ matches = <<>>
        IN  /\ v.suspected = expected
            /\ v.reasons = IF expected THEN TriggeredReasons ELSE <<ReasonNone>>
            /\ v.summary = IF expected THEN SummarySuspected ELSE SummaryClean
            /\ v = assess_tampering([info_flags EXCEPT !.hasJFIF = ~@], matches)

\* a clean verdict: EXIF present, no Adobe marker, at least one match
C5_Witness ==
    /\ pc = "print"
    /\ info_flags.hasExif
    /\ ~info_flags.hasAdobe
    /\ matches # <<>>
    /\ ~tampering[1].suspected
    /\ tampering[1].reasons = <<ReasonNone>>

====
